---- MODULE Spec2Model ----
(***************************************************************************)
(* A model of ddg_mcp/server.py: the tool catalog (handle_list_tools), the *)
(* tool dispatcher (handle_call_tool) and the prompt handler               *)
(* (handle_get_prompt), served one request at a time by the host loop      *)
(* against a DuckDuckGo provider that answers deterministically.           *)
(*                                                                         *)
(* Text is modelled as the sequence of segments an f-string is built from: *)
(* the literal parts and the interpolated values, in order.                *)
(***************************************************************************)
EXTENDS Integers, Sequences, FiniteSets, TLC

VARIABLES
    stub,         \* the provider: the one operation it serves and its answer
    phase,        \* "idle", "pending" (request received), "done" (handler ended)
    req,          \* the request being served
    outcome,      \* what the handler returned or raised
    providerLog,  \* the provider calls the handler made for this request
    earlier       \* an exchange the caller kept for comparison

vars == <<stub, phase, req, outcome, providerLog, earlier>>

\* The longest record sequence a provider answer holds.
MaxRecords == 2

\* Python's None, as str() renders it.
NoneVal == "None"

--------------------------------------------------------------------------
(* Python helpers *)

\* dict.get(key, default)
Get(d, key, default) == IF key \in DOMAIN d THEN d[key] ELSE default

\* `v is None` in place of `not v`
FalsyNoneOnly(v) == v = NoneVal

\* `not v` for the scalar values of the model
Falsy(v) == v = NoneVal \/ v = ""

\* str(i) of an f-string's {i}
Str(i) == ToString(i)

--------------------------------------------------------------------------
(* handle_list_tools: the catalog *)

DefaultMaxResults == 10

CommonDefaults ==
    [k \in {"region", "safesearch", "max_results"} |->
        CASE k = "region" -> "wt-wt"
          [] k = "safesearch" -> "moderate"
          [] k = "max_results" -> DefaultMaxResults]

TextTool ==
    [name |-> "ddg-text-search",
     properties |-> {"keywords", "region", "safesearch", "timelimit", "max_results"},
     defaults |-> CommonDefaults,
     required |-> <<"keywords">>]

ImageTool ==
    [name |-> "ddg-image-search",
     properties |-> {"keywords", "region", "safesearch", "timelimit", "size", "color",
                     "type_image", "layout", "license_image", "max_results"},
     defaults |-> CommonDefaults,
     required |-> <<"keywords">>]

NewsTool ==
    [name |-> "ddg-news-search",
     properties |-> {"keywords", "region", "safesearch", "timelimit", "max_results"},
     defaults |-> CommonDefaults,
     required |-> <<"keywords">>]

\* A descriptor requiring a field its properties do not declare
VideoToolRequiresQuery ==
    [name |-> "ddg-video-search",
     properties |-> {"keywords", "region", "safesearch", "timelimit", "resolution",
                     "duration", "license_videos", "max_results"},
     defaults |-> CommonDefaults,
     required |-> <<"query">>]

VideoTool ==
    [name |-> "ddg-video-search",
     properties |-> {"keywords", "region", "safesearch", "timelimit", "resolution",
                     "duration", "license_videos", "max_results"},
     defaults |-> CommonDefaults,
     required |-> <<"keywords">>]

ListTools == <<TextTool, ImageTool, NewsTool, VideoTool>>

--------------------------------------------------------------------------
(* The provider (duckduckgo_search.DDGS), answering deterministically *)

ProviderError == "ProviderError"

Provider(op, kwargs) ==
    IF stub.op = op /\ ~stub.raises
    THEN [raised |-> FALSE, results |-> stub.results]
    ELSE [raised |-> TRUE, results |-> <<>>]

--------------------------------------------------------------------------
(* What a handler ends in *)

NoOutcome == [status |-> "none", error |-> "", result |-> <<>>, calls |-> <<>>]

Raised(message, calls) ==
    [status |-> "error", error |-> message, result |-> <<>>, calls |-> calls]

Returned(result, calls) ==
    [status |-> "ok", error |-> "", result |-> result, calls |-> calls]

TextContent(text) == [type |-> "text", text |-> text]

--------------------------------------------------------------------------
(* handle_call_tool: formatting *)

\* enumerate(results, 1)
EnumerateStart == 1

\* A missing title falling back to the body
TextEntryTitleOrBody(i, result) ==
    <<Str(i), ". ", Get(result, "title", Get(result, "body", "No title")),
      "\n   URL: ", Get(result, "href", "No URL"),
      "\n   ", Get(result, "body", "No description"), "\n\n">>

TextEntry(i, result) ==
    <<Str(i), ". ", Get(result, "title", "No title"),
      "\n   URL: ", Get(result, "href", "No URL"),
      "\n   ", Get(result, "body", "No description"), "\n\n">>

ImageEntry(i, result) ==
    LET image_url == Get(result, "image", NoneVal)
    IN  <<Str(i), ". ", Get(result, "title", "No title"),
          "\n   Source: ", Get(result, "source", "Unknown"),
          "\n   URL: ", Get(result, "url", "No URL"),
          "\n   Size: ", Get(result, "width", "N/A"), "x", Get(result, "height", "N/A"),
          "\n">>
        \o (IF ~Falsy(image_url) THEN <<"   Image: ", image_url, "\n">> ELSE <<>>)
        \o <<"\n">>

NewsEntry(i, result) ==
    <<Str(i), ". ", Get(result, "title", "No title"),
      "\n   Source: ", Get(result, "source", "Unknown"),
      "\n   Date: ", Get(result, "date", "No date"),
      "\n   URL: ", Get(result, "url", "No URL"),
      "\n   ", Get(result, "body", "No description"), "\n\n">>

VideoEntry(i, result) ==
    <<Str(i), ". ", Get(result, "title", "No title"),
      "\n   Publisher: ", Get(result, "publisher", "Unknown"),
      "\n   Duration: ", Get(result, "duration", "Unknown"),
      "\n   URL: ", Get(result, "content", "No URL"),
      "\n   Published: ", Get(result, "published", "No date"),
      "\n   ", Get(result, "description", "No description"), "\n\n">>

Entry(op, i, result) ==
    CASE op = "text" -> TextEntry(i, result)
      [] op = "images" -> ImageEntry(i, result)
      [] op = "news" -> NewsEntry(i, result)
      [] op = "videos" -> VideoEntry(i, result)

\* for i, result in enumerate(results, i): formatted_results += entry
RECURSIVE Accumulate(_, _, _)
Accumulate(op, results, i) ==
    IF Len(results) = 0 THEN <<>>
    ELSE Entry(op, i, Head(results)) \o Accumulate(op, Tail(results), i + 1)

\* for i, result in enumerate(results, i): text_results.append(TextContent(entry))
RECURSIVE AppendEach(_, _, _)
AppendEach(op, results, i) ==
    IF Len(results) = 0 THEN <<>>
    ELSE <<TextContent(Entry(op, i, Head(results)))>> \o AppendEach(op, Tail(results), i + 1)

Heading(op) ==
    CASE op = "text" -> "Search results for '"
      [] op = "images" -> "Image search results for '"
      [] op = "news" -> "News search results for '"
      [] op = "videos" -> "Video search results for '"

\* Image results joined into one block like the other families
FormatResultsCombined(op, keywords, results) ==
    <<TextContent(<<Heading(op), keywords, "':\n\n">>
                  \o Accumulate(op, results, EnumerateStart))>>

\* enumerate(results) without its start
FormatResultsFromZero(op, keywords, results) ==
    IF op = "images"
    THEN AppendEach(op, results, 0)
    ELSE <<TextContent(<<Heading(op), keywords, "':\n\n">>
                       \o Accumulate(op, results, 0))>>

\* The result list kept across calls and appended to
FormatResultsCarried(op, keywords, results) ==
    (IF earlier.kept /\ earlier.req.kind = "call_tool" THEN earlier.outcome.result
     ELSE <<>>)
    \o (IF op = "images"
        THEN AppendEach(op, results, EnumerateStart)
        ELSE <<TextContent(<<Heading(op), keywords, "':\n\n">>
                           \o Accumulate(op, results, EnumerateStart))>>)

FormatResults(op, keywords, results) ==
    IF op = "images"
    THEN AppendEach(op, results, EnumerateStart)
    ELSE <<TextContent(<<Heading(op), keywords, "':\n\n">>
                       \o Accumulate(op, results, EnumerateStart))>>

--------------------------------------------------------------------------
(* handle_call_tool: the arguments each branch reads, with its defaults *)

TextKwargs(arguments) ==
    [keywords |-> Get(arguments, "keywords", NoneVal),
     region |-> Get(arguments, "region", "wt-wt"),
     safesearch |-> Get(arguments, "safesearch", "moderate"),
     timelimit |-> Get(arguments, "timelimit", NoneVal),
     max_results |-> Get(arguments, "max_results", DefaultMaxResults)]

ImageKwargs(arguments) ==
    [keywords |-> Get(arguments, "keywords", NoneVal),
     region |-> Get(arguments, "region", "wt-wt"),
     safesearch |-> Get(arguments, "safesearch", "moderate"),
     timelimit |-> Get(arguments, "timelimit", NoneVal),
     size |-> Get(arguments, "size", NoneVal),
     color |-> Get(arguments, "color", NoneVal),
     type_image |-> Get(arguments, "type_image", NoneVal),
     layout |-> Get(arguments, "layout", NoneVal),
     license_image |-> Get(arguments, "license_image", NoneVal),
     max_results |-> Get(arguments, "max_results", DefaultMaxResults)]

\* A branch whose safe-search default is stricter than the documented one
NewsKwargsSafeOn(arguments) ==
    [keywords |-> Get(arguments, "keywords", NoneVal),
     region |-> Get(arguments, "region", "wt-wt"),
     safesearch |-> Get(arguments, "safesearch", "on"),
     timelimit |-> Get(arguments, "timelimit", NoneVal),
     max_results |-> Get(arguments, "max_results", DefaultMaxResults)]

NewsKwargs(arguments) ==
    [keywords |-> Get(arguments, "keywords", NoneVal),
     region |-> Get(arguments, "region", "wt-wt"),
     safesearch |-> Get(arguments, "safesearch", "moderate"),
     timelimit |-> Get(arguments, "timelimit", NoneVal),
     max_results |-> Get(arguments, "max_results", DefaultMaxResults)]

VideoKwargs(arguments) ==
    [keywords |-> Get(arguments, "keywords", NoneVal),
     region |-> Get(arguments, "region", "wt-wt"),
     safesearch |-> Get(arguments, "safesearch", "moderate"),
     timelimit |-> Get(arguments, "timelimit", NoneVal),
     resolution |-> Get(arguments, "resolution", NoneVal),
     duration |-> Get(arguments, "duration", NoneVal),
     license_videos |-> Get(arguments, "license_videos", NoneVal),
     max_results |-> Get(arguments, "max_results", DefaultMaxResults)]

ChatKwargs(arguments) ==
    [keywords |-> Get(arguments, "keywords", NoneVal),
     model |-> Get(arguments, "model", "gpt-4o-mini")]

--------------------------------------------------------------------------
(* handle_call_tool: the branches *)

\* A branch that asks the provider a second time and answers with no records
\* when it raises
SearchBranchRetries(op, kwargs) ==
    IF Falsy(kwargs.keywords) THEN Raised("Missing keywords", <<>>)
    ELSE LET resp == Provider(op, kwargs)
             call == [op |-> op, kwargs |-> kwargs, raised |-> resp.raised]
         IN  IF resp.raised
             THEN Returned(FormatResults(op, kwargs.keywords, <<>>), <<call, call>>)
             ELSE Returned(FormatResults(op, kwargs.keywords, resp.results), <<call>>)

\* One search branch: validate keywords, call the provider once, format.
SearchBranch(op, kwargs) ==
    IF Falsy(kwargs.keywords) THEN Raised("Missing keywords", <<>>)
    ELSE LET resp == Provider(op, kwargs)
             call == [op |-> op, kwargs |-> kwargs, raised |-> resp.raised]
         IN  IF resp.raised THEN Raised(ProviderError, <<call>>)
             ELSE Returned(FormatResults(op, kwargs.keywords, resp.results), <<call>>)

ChatBranch(kwargs) ==
    IF Falsy(kwargs.keywords) THEN Raised("Missing keywords", <<>>)
    ELSE LET resp == Provider("chat", kwargs)
             call == [op |-> "chat", kwargs |-> kwargs, raised |-> resp.raised]
         IN  IF resp.raised THEN Raised(ProviderError, <<call>>)
             ELSE Returned(<<TextContent(<<"DuckDuckGo AI (", kwargs.model,
                                           ") response:\n\n", resp.results>>)>>,
                           <<call>>)

\* `arguments is None` in place of `not arguments`
NotArgumentsNoneOnly(r) == ~r.hasArguments

\* `not arguments`: None or an empty dict
NotArguments(r) == ~r.hasArguments \/ DOMAIN r.arguments = {}

\* The chain's final else running the text search instead of raising
CallToolFallsThrough(r) ==
    IF NotArguments(r) THEN Raised("Missing arguments", <<>>)
    ELSE CASE r.name = "ddg-image-search" -> SearchBranch("images", ImageKwargs(r.arguments))
           [] r.name = "ddg-news-search" -> SearchBranch("news", NewsKwargs(r.arguments))
           [] r.name = "ddg-video-search" -> SearchBranch("videos", VideoKwargs(r.arguments))
           [] r.name = "ddg-ai-chat" -> ChatBranch(ChatKwargs(r.arguments))
           [] OTHER -> SearchBranch("text", TextKwargs(r.arguments))

CallTool(r) ==
    IF NotArguments(r) THEN Raised("Missing arguments", <<>>)
    ELSE CASE r.name = "ddg-text-search" -> SearchBranch("text", TextKwargs(r.arguments))
           [] r.name = "ddg-image-search" -> SearchBranch("images", ImageKwargs(r.arguments))
           [] r.name = "ddg-news-search" -> SearchBranch("news", NewsKwargs(r.arguments))
           [] r.name = "ddg-video-search" -> SearchBranch("videos", VideoKwargs(r.arguments))
           [] r.name = "ddg-ai-chat" -> ChatBranch(ChatKwargs(r.arguments))
           [] OTHER -> Raised("Unknown tool", <<>>)

--------------------------------------------------------------------------
(* handle_get_prompt *)

PromptEntry(result) ==
    <<"Title: ", Get(result, "title", "No title"),
      "\nURL: ", Get(result, "href", "No URL"),
      "\nDescription: ", Get(result, "body", "No description")>>

\* "\n\n".join(entries)
RECURSIVE JoinEntries(_)
JoinEntries(results) ==
    IF Len(results) = 0 THEN <<>>
    ELSE IF Len(results) = 1 THEN PromptEntry(Head(results))
    ELSE PromptEntry(Head(results)) \o <<"\n\n">> \o JoinEntries(Tail(results))

GetPrompt(r) ==
    IF r.name = "search-results-summary"
    THEN IF NotArguments(r) \/ "query" \notin DOMAIN r.arguments
         THEN Raised("Missing required 'query' argument", <<>>)
         ELSE LET query == r.arguments["query"]
                  style == Get(r.arguments, "style", "brief")
                  detail_prompt == IF style = "detailed" THEN " Give extensive details." ELSE ""
                  kwargs == [keywords |-> query, max_results |-> 10]
                  resp == Provider("text", kwargs)
                  call == [op |-> "text", kwargs |-> kwargs, raised |-> resp.raised]
              IN  IF resp.raised THEN Raised(ProviderError, <<call>>)
                  ELSE Returned(
                         [description |-> <<"Summarize search results for '", query, "'">>,
                          messages |-> <<[role |-> "user",
                                          content |-> TextContent(
                                            <<"Here are the search results for '", query,
                                              "'. Please summarize them", detail_prompt,
                                              ":\n\n">> \o JoinEntries(resp.results))]>>],
                         <<call>>)
    ELSE Raised("Unknown prompt", <<>>)

--------------------------------------------------------------------------
(* The provider answers the model draws from *)

SearchOps == {"text", "images", "news", "videos"}

Fields(op) ==
    CASE op = "text" -> {"title", "href", "body"}
      [] op = "images" -> {"title", "source", "url", "width", "height", "image"}
      [] op = "news" -> {"title", "source", "date", "url", "body"}
      [] op = "videos" -> {"title", "publisher", "duration", "content", "published",
                           "description"}

\* The value of field f in the record tagged v, e.g. "A-title".
FieldVal(v, f) == v \o "-" \o f

Record(v, S) == [f \in S |-> FieldVal(v, f)]

Full(v, op) == Record(v, Fields(op))

\* A lone record: every combination of present and absent fields, and for
\* images a record whose image field is present but empty.
SingleRecords(op) ==
    {Record("A", S) : S \in SUBSET Fields(op)}
    \cup (IF op = "images" THEN {[Full("A", op) EXCEPT !["image"] = ""]} ELSE {})

\* The records of longer answers.
SeqRecords(op) ==
    {Full("A", op), Full("B", op), Record("B", Fields(op) \ {"title"}), Record("A", {})}

Answers(op) ==
    {<<>>} \cup {<<r>> : r \in SingleRecords(op)}
    \cup UNION {[1..n -> SeqRecords(op)] : n \in 2..MaxRecords}

Stubs ==
    {[op |-> op, raises |-> TRUE, results |-> <<>>] : op \in SearchOps \cup {"chat"}}
    \cup UNION {{[op |-> op, raises |-> FALSE, results |-> a] : a \in Answers(op)} :
                op \in SearchOps}
    \cup {[op |-> "chat", raises |-> FALSE, results |-> "hello"]}

\* The provider answers of the comparison runs: whole records only.
IdemStubs ==
    {s \in Stubs : s.raises \/ s.op = "chat"
                   \/ \A i \in 1..Len(s.results) :
                        s.results[i] \in {Full("A", s.op), Full("B", s.op)}}

--------------------------------------------------------------------------
(* The requests the model draws from *)

CatalogNames == {ListTools[i].name : i \in 1..Len(ListTools)}

ToolNames == CatalogNames \cup {"ddg-ai-chat", "ddg-maps-search"}

\* Every key some branch reads besides keywords, and one no branch reads.
OptionalKeys ==
    {"region", "safesearch", "timelimit", "max_results", "size", "color", "type_image",
     "layout", "license_image", "resolution", "duration", "license_videos", "model",
     "page"}

\* A caller's value for a key: never the key's default.
ArgValue(k) ==
    CASE k = "keywords" -> "x"
      [] k = "region" -> "us-en"
      [] k = "safesearch" -> "off"
      [] k = "timelimit" -> "d"
      [] k = "max_results" -> 5
      [] k = "size" -> "Large"
      [] k = "color" -> "Red"
      [] k = "type_image" -> "photo"
      [] k = "layout" -> "Wide"
      [] k = "license_image" -> "Public"
      [] k = "resolution" -> "high"
      [] k = "duration" -> "short"
      [] k = "license_videos" -> "youtube"
      [] k = "model" -> "o3-mini"
      [] k = "page" -> "2"

EmptyMap == <<>>

\* A dict with the keys S; kw is the value of keywords when S holds it.
Mapping(S, kw) ==
    IF S = {} THEN EmptyMap
    ELSE [k \in S |-> IF k = "keywords" THEN kw ELSE ArgValue(k)]

\* No optional key, each one alone, all of them together.
OptionalChoices == {{}} \cup {{k} : k \in OptionalKeys} \cup {OptionalKeys}

ArgumentMaps ==
    {Mapping(S, "") : S \in OptionalChoices}
    \cup UNION {{Mapping(S \cup {"keywords"}, kw) : S \in OptionalChoices} :
                kw \in {"", "x"}}

ToolRequest(name, hasArguments, arguments) ==
    [kind |-> "call_tool", name |-> name, hasArguments |-> hasArguments,
     arguments |-> arguments]

CallToolRequests ==
    {ToolRequest(n, FALSE, EmptyMap) : n \in ToolNames}
    \cup {ToolRequest(n, TRUE, a) : n \in ToolNames, a \in ArgumentMaps}

PromptMaps ==
    {EmptyMap, [query |-> "x"], [query |-> "x", style |-> "detailed"],
     [query |-> "x", style |-> "brief"], [style |-> "detailed"]}

GetPromptRequests ==
    LET names == {"search-results-summary", "weekly-digest"}
    IN  {[kind |-> "get_prompt", name |-> n, hasArguments |-> FALSE,
          arguments |-> EmptyMap] : n \in names}
        \cup {[kind |-> "get_prompt", name |-> n, hasArguments |-> TRUE,
               arguments |-> a] : n \in names, a \in PromptMaps}

ListToolsRequest ==
    [kind |-> "list_tools", name |-> "", hasArguments |-> FALSE, arguments |-> EmptyMap]

NoRequest ==
    [kind |-> "none", name |-> "", hasArguments |-> FALSE, arguments |-> EmptyMap]

Requests == CallToolRequests \cup GetPromptRequests \cup {ListToolsRequest}

\* The requests of the comparison runs.
IdemRequests ==
    {r \in CallToolRequests :
        r.arguments \in {EmptyMap, [keywords |-> ""], [keywords |-> "x"],
                         Mapping({"keywords", "region"}, "x"),
                         Mapping({"keywords", "model"}, "x")}}
    \cup {r \in GetPromptRequests : r.name = "search-results-summary"
                                    /\ r.arguments = [query |-> "x"]}
    \cup {ListToolsRequest}

--------------------------------------------------------------------------
(* The host loop: one request at a time *)

NotKept == [kept |-> FALSE, req |-> NoRequest, outcome |-> NoOutcome]

Init ==
    /\ stub \in Stubs
    /\ phase = "idle"
    /\ req = NoRequest
    /\ outcome = NoOutcome
    /\ providerLog = <<>>
    /\ earlier = NotKept

InitIdem ==
    /\ stub \in IdemStubs
    /\ phase = "idle"
    /\ req = NoRequest
    /\ outcome = NoOutcome
    /\ providerLog = <<>>
    /\ earlier = NotKept

\* A request arrives.
Receive(S) ==
    /\ phase = "idle"
    /\ \E r \in S : req' = r
    /\ phase' = "pending"
    /\ UNCHANGED <<stub, outcome, providerLog, earlier>>

\* A handler runs to its end: it returns or raises.
Finish(res) ==
    /\ outcome' = [res EXCEPT !.calls = <<>>]
    /\ providerLog' = res.calls
    /\ phase' = "done"
    /\ UNCHANGED <<stub, req, earlier>>

HandleListTools ==
    /\ phase = "pending" /\ req.kind = "list_tools"
    /\ Finish(Returned(ListTools, <<>>))

HandleCallTool ==
    /\ phase = "pending" /\ req.kind = "call_tool"
    /\ Finish(CallTool(req))

HandleGetPrompt ==
    /\ phase = "pending" /\ req.kind = "get_prompt"
    /\ Finish(GetPrompt(req))

\* The response goes back to the caller; nothing of the request stays behind.
Reply ==
    /\ phase = "done"
    /\ phase' = "idle"
    /\ req' = NoRequest
    /\ outcome' = NoOutcome
    /\ providerLog' = <<>>
    /\ UNCHANGED <<stub, earlier>>

\* As Reply, and the caller keeps this exchange to compare a later one with.
ReplyKept ==
    /\ phase = "done" /\ req.kind \in {"call_tool", "list_tools"} /\ ~earlier.kept
    /\ earlier' = [kept |-> TRUE, req |-> req, outcome |-> outcome]
    /\ phase' = "idle"
    /\ req' = NoRequest
    /\ outcome' = NoOutcome
    /\ providerLog' = <<>>
    /\ UNCHANGED stub

ReceiveAny == Receive(Requests)

ReceiveIdem == Receive(IdemRequests)

Next == ReceiveAny \/ HandleListTools \/ HandleCallTool \/ HandleGetPrompt \/ Reply

Spec == Init /\ [][Next]_vars

NextIdem ==
    ReceiveIdem \/ HandleListTools \/ HandleCallTool \/ HandleGetPrompt \/ Reply
    \/ ReplyKept

SpecIdem == InitIdem /\ [][NextIdem]_vars

--------------------------------------------------------------------------
(* Reading a finished exchange *)

Done == phase = "done"

DoneCall == Done /\ req.kind = "call_tool"

\* The arguments are None or an empty mapping.
AbsentOrEmpty(r) == ~r.hasArguments \/ DOMAIN r.arguments = {}

\* The query field is absent or empty.
NoQuery(r) == "keywords" \notin DOMAIN r.arguments \/ r.arguments["keywords"] = ""

Failed(message) == outcome.status = "error" /\ outcome.error = message

\* C2: for every tool name, a call with absent (None) or empty arguments
\* fails with "Missing arguments", whatever the name, and calls no provider
\* operation.
C2_MissingArguments ==
    (DoneCall /\ AbsentOrEmpty(req)) =>
        (Failed("Missing arguments") /\ providerLog = <<>>)

\* An unknown name with an empty dict: the arguments check comes first.
C2_Witness ==
    /\ DoneCall /\ req.name = "ddg-maps-search"
    /\ req.hasArguments /\ DOMAIN req.arguments = {}
    /\ Failed("Missing arguments")

\* C3: a catalog tool called with a non-empty mapping whose keywords is absent
\* or empty fails with "Missing keywords" and calls no provider operation.
C3_MissingKeywords ==
    (DoneCall /\ req.name \in CatalogNames /\ ~AbsentOrEmpty(req) /\ NoQuery(req)) =>
        (Failed("Missing keywords") /\ providerLog = <<>>)

\* An image search whose keywords is present but empty, next to other keys.
C3_Witness ==
    /\ DoneCall /\ req.name = "ddg-image-search"
    /\ DOMAIN req.arguments = OptionalKeys \cup {"keywords"}
    /\ req.arguments["keywords"] = ""
    /\ Failed("Missing keywords")

\* C1 as claimed: every name outside the catalog, with any arguments, ends in
\* "Unknown tool" without a provider call.
C1_UnknownToolForAnyArguments ==
    (DoneCall /\ req.name \notin CatalogNames) =>
        (Failed("Unknown tool") /\ providerLog = <<>>)

\* C1 (amended): a name matched by no branch of the dispatcher (neither a
\* catalog name nor the unadvertised ddg-ai-chat) fails without a provider
\* call: with "Unknown tool" when the arguments are non-empty, with
\* "Missing arguments" when they are absent or empty; ddg-ai-chat with
\* non-empty arguments never ends in "Unknown tool".
C1_UnknownTool ==
    /\ (DoneCall /\ req.name \notin CatalogNames \cup {"ddg-ai-chat"}) =>
          /\ providerLog = <<>>
          /\ IF AbsentOrEmpty(req) THEN Failed("Missing arguments")
             ELSE Failed("Unknown tool")
    /\ (DoneCall /\ req.name = "ddg-ai-chat" /\ ~AbsentOrEmpty(req)) =>
          ~Failed("Unknown tool")

\* An unknown name with a full set of arguments ends in "Unknown tool".
C1_Witness ==
    /\ DoneCall /\ req.name = "ddg-maps-search"
    /\ "keywords" \in DOMAIN req.arguments /\ req.arguments["keywords"] = "x"
    /\ Failed("Unknown tool") /\ providerLog = <<>>

--------------------------------------------------------------------------
(* Reading formatted output *)

\* The provider operation behind a catalog tool.
OpOf(name) ==
    CASE name = "ddg-text-search" -> "text"
      [] name = "ddg-image-search" -> "images"
      [] name = "ddg-news-search" -> "news"
      [] name = "ddg-video-search" -> "videos"

\* The segments of one listed record in a combined block.
EntryLen(op) ==
    CASE op = "text" -> 8
      [] op = "news" -> 12
      [] op = "videos" -> 14

\* Where a record's field is rendered within its entry.
FieldAt(op, f) ==
    CASE f = "title" -> 3
      [] op = "text" /\ f = "href" -> 5
      [] op = "text" /\ f = "body" -> 7
      [] op = "images" /\ f = "source" -> 5
      [] op = "images" /\ f = "url" -> 7
      [] op = "images" /\ f = "width" -> 9
      [] op = "images" /\ f = "height" -> 11
      [] op = "images" /\ f = "image" -> 14
      [] op = "news" /\ f = "source" -> 5
      [] op = "news" /\ f = "date" -> 7
      [] op = "news" /\ f = "url" -> 9
      [] op = "news" /\ f = "body" -> 11
      [] op = "videos" /\ f = "publisher" -> 5
      [] op = "videos" /\ f = "duration" -> 7
      [] op = "videos" /\ f = "content" -> 9
      [] op = "videos" /\ f = "published" -> 11
      [] op = "videos" /\ f = "description" -> 13

\* The literal rendered for an absent field; the image field has none.
Placeholder(op, f) ==
    CASE f = "title" -> "No title"
      [] f \in {"href", "url", "content"} -> "No URL"
      [] f \in {"body", "description"} -> "No description"
      [] f \in {"source", "publisher"} -> "Unknown"
      [] op = "videos" /\ f = "duration" -> "Unknown"
      [] f \in {"date", "published"} -> "No date"
      [] f \in {"width", "height"} -> "N/A"

\* A combined block is its three heading segments and whole entries.
WellFormed(op, result) ==
    op = "images" \/ (Len(result) = 1 /\ Len(result[1].text) >= 3
                      /\ (Len(result[1].text) - 3) % EntryLen(op) = 0)

\* The entries listed in a result, in output order.
OutEntries(op, result) ==
    IF op = "images" THEN [k \in 1..Len(result) |-> result[k].text]
    ELSE LET t == result[1].text
             n == (Len(t) - 3) \div EntryLen(op)
         IN  [k \in 1..n |-> SubSeq(t, 3 + (k - 1) * EntryLen(op) + 1, 3 + k * EntryLen(op))]

\* A catalog tool's call came back with formatted results.
Formatted == DoneCall /\ req.name \in CatalogNames /\ outcome.status = "ok"

\* The call passed validation: a dispatchable name, non-empty arguments, a query.
Validated ==
    /\ DoneCall /\ req.name \in CatalogNames \cup {"ddg-ai-chat"}
    /\ ~AbsentOrEmpty(req) /\ ~NoQuery(req)

\* C4: a call that passes validation calls the provider exactly once; if that
\* call raises, call_tool fails with the provider's error and returns nothing;
\* otherwise it returns the whole formatted result (every record listed).
C4_OneProviderCall ==
    Validated =>
        /\ Len(providerLog) = 1
        /\ providerLog[1].raised =>
              (Failed(ProviderError) /\ outcome.result = <<>>)
        /\ ~providerLog[1].raised =>
              /\ outcome.status = "ok"
              /\ req.name \in CatalogNames =>
                    /\ WellFormed(OpOf(req.name), outcome.result)
                    /\ Len(OutEntries(OpOf(req.name), outcome.result)) = Len(stub.results)
              /\ req.name = "ddg-ai-chat" => Len(outcome.result) = 1

\* A validated news search whose provider call raised.
C4_Witness ==
    /\ Validated /\ req.name = "ddg-news-search"
    /\ Len(providerLog) = 1 /\ providerLog[1].raised
    /\ Failed(ProviderError)

\* C6: for a provider answer of N records, ddg-image-search returns N content
\* blocks, and the text, news and video searches return exactly one text block.
C6_BlockCount ==
    Formatted =>
        IF req.name = "ddg-image-search"
        THEN Len(outcome.result) = Len(stub.results)
        ELSE Len(outcome.result) = 1 /\ outcome.result[1].type = "text"

\* An image search over two records came back as two blocks.
C6_Witness ==
    /\ Formatted /\ req.name = "ddg-image-search"
    /\ Len(stub.results) = 2 /\ Len(outcome.result) = 2

\* C7: for a provider answer of N records the output lists exactly N entries;
\* entry i carries the ordinal i and the fields of the i-th record.
C7_OneToOneInOrder ==
    Formatted =>
        LET op == OpOf(req.name)
            entries == OutEntries(op, outcome.result)
        IN  /\ WellFormed(op, outcome.result)
            /\ Len(entries) = Len(stub.results)
            /\ \A i \in 1..Len(stub.results) :
                  /\ entries[i][1] = ToString(i)
                  /\ \A f \in Fields(op) \cap DOMAIN stub.results[i] :
                        (f = "image" /\ stub.results[i][f] = "")
                        \/ entries[i][FieldAt(op, f)] = stub.results[i][f]

\* A text search over records A and B lists A first and B second.
C7_Witness ==
    /\ Formatted /\ req.name = "ddg-text-search"
    /\ stub.results = <<Full("A", "text"), Full("B", "text")>>
    /\ outcome.result[1].text[6] = "A-title"
    /\ outcome.result[1].text[14] = "B-title"

\* C10: in every tool family a record without a title is rendered with
\* "No title", whichever other fields it has; every other field that has a
\* placeholder is rendered as the placeholder when the record lacks it and as
\* the record's value when it has it.
C10_Placeholders ==
    Formatted =>
        LET op == OpOf(req.name)
            entries == OutEntries(op, outcome.result)
        IN  \A i \in 1..Len(stub.results) :
                \A f \in Fields(op) \ {"image"} :
                    entries[i][FieldAt(op, f)] =
                        IF f \in DOMAIN stub.results[i] THEN stub.results[i][f]
                        ELSE Placeholder(op, f)

\* A text record with a body and no title is rendered with "No title".
C10_Witness ==
    /\ Formatted /\ req.name = "ddg-text-search"
    /\ stub.results = <<Record("A", {"body"})>>
    /\ outcome.result[1].text[6] = "No title"
    /\ outcome.result[1].text[10] = "A-body"

--------------------------------------------------------------------------
(* The catalog against the dispatcher *)

\* The elements of a sequence.
Range(q) == {q[i] : i \in 1..Len(q)}

\* The catalog entry of a catalog name.
Descriptor(name) == CHOOSE t \in Range(ListTools) : t.name = name

C8_CatalogStable ==
    (Done /\ req.kind = "list_tools") =>
        /\ outcome.status = "ok"
        /\ \A t \in Range(outcome.result) :
              /\ Len(t.required) > 0
              /\ Range(t.required) = {"keywords"}
              /\ Range(t.required) \subseteq t.properties
        /\ (earlier.kept /\ earlier.req.kind = "list_tools") =>
              outcome = earlier.outcome

\* A second list_tools response, after one was kept.
C8_Witness ==
    /\ Done /\ req.kind = "list_tools"
    /\ earlier.kept /\ earlier.req.kind = "list_tools"
    /\ Len(outcome.result) = 4

====
